---- MODULE Spec2Model ----
(***************************************************************************)
(* Mini Library Manager: the menu loop and the four catalog operations of  *)
(* the programs of the repository.                                         *)
(*                                                                         *)
(*   "part_000"  src/unnamed/part_000: SQLite/GORM catalog, line input,    *)
(*               validation, sample data at first start.                   *)
(*   "main.go"   src/main.go: the menu loop over the legacy slice `book`;  *)
(*               main never calls initDB, so `db` stays nil.               *)
(*   "part_001a" src/unnamed/part_001, lines 1-26: reads one choice,       *)
(*               echoes it and ends.                                       *)
(*   "part_001b" src/unnamed/part_001, lines 28-95: reads one choice,      *)
(*               then a loop over a switch on it that reads nothing more.  *)
(*                                                                         *)
(* Text is a sequence of code points (32 is a space, 10 a newline), so     *)
(* that trimming, token scanning and ORDER BY title are computed, not      *)
(* assumed.  The table of library.db is the sequence `library`, in rowid   *)
(* order; it outlives a process, the other variables are process state or  *)
(* what the last operation read and printed.  The columns updated_at and   *)
(* the wall-clock value of created_at are not modelled: created_at is the  *)
(* logical time of the insertion (rows are stamped in the order they are   *)
(* created), and no code reads updated_at.                                 *)
(***************************************************************************)
EXTENDS Integers, Sequences, FiniteSets

VARIABLES
  variant,    \* which program of the repository runs
  pc,         \* "init" (never started), "menu" (in the menu loop, waiting
              \* at "Option => "), "loop" (in part_001b's loop, which reads
              \* nothing), "exited" (status 0), "fatal" (log.Fatal, status 1),
              \* "panicked" (status 2)
  db,         \* the global db: "nil" or "open"
  library,    \* the rows of table books in library.db, in rowid order
  book,       \* main.go's legacy global slice `book`
  option,     \* the last menu choice parsed by menuSelector
  choice,     \* the input the last read of a menu choice consumed, newline
              \* included (<<>> before the first)
  stdin,      \* input typed but not yet consumed (fmt.Scanln leaves the
              \* rest of a line it rejects)
  menu,       \* TRUE iff displayMenu is the last thing the program printed
              \* before the prompt it now waits at
  typed,      \* what the last operation read after the menu choice, in order
  outcome,    \* the last status line the program printed
  displayed,  \* the numbered list the last operation printed (<<>> if none)
  summary,    \* <<total, available, borrowed>> printed by listBooks (<<>> if none)
  adds,       \* number of interactive Add operations that reached the store
  script,     \* progress of the run along the scenario of spec section 8
  seedings,   \* number of starts, so far, whose first-time setup inserted rows
  trip        \* the last one or two operations, when they are a successful
              \* Borrow and the successful Return of the same book after it:
              \* the stage reached, the book, and the table before the Borrow

vars == <<variant, pc, db, library, book, option, choice, stdin, menu, typed,
          outcome, displayed, summary, adds, script, seedings, trip>>

\* ---------------------------------------------------------------- bounds

\* Interactive adds that may reach the store, over all sessions.
MaxAdds == 1

\* ---------------------------------------------------------------- text

Space == 32

NewLine == 10

\* unicode.IsSpace on the Latin-1 range, as strings.TrimSpace uses it.
WhiteSpace == {9, 10, 11, 12, 13, 32, 133, 160}

RECURSIVE TrimLeft(_)
TrimLeft(s) ==
  IF s # <<>> /\ Head(s) \in WhiteSpace THEN TrimLeft(Tail(s)) ELSE s

RECURSIVE TrimRight(_)
TrimRight(s) ==
  IF s # <<>> /\ s[Len(s)] \in WhiteSpace
  THEN TrimRight(SubSeq(s, 1, Len(s) - 1))
  ELSE s

\* strings.TrimSpace
TrimSpace(s) == TrimRight(TrimLeft(s))

\* Mutant: the text up to the first blank, as a token read takes it.
readInputFirstWord(line) ==
  LET s == TrimLeft(line \o <<NewLine>>)
      n == CHOOSE n \in 0..Len(s) :
             /\ \A k \in 1..n : s[k] \notin WhiteSpace
             /\ n = Len(s) \/ s[n + 1] \in WhiteSpace
  IN  SubSeq(s, 1, n)

\* readInput: one line from the terminal, newline included, then TrimSpace.
readInput(line) == TrimSpace(line \o <<NewLine>>)

Digits == 48..57

Minus == 45

Plus == 43

\* The decimal value of a run of digits.
RECURSIVE DigitsValue(_, _)
DigitsValue(s, acc) ==
  IF s = <<>> THEN acc ELSE DigitsValue(Tail(s), 10 * acc + (Head(s) - 48))

\* Whether strconv.Atoi accepts s: an optional sign, then one digit or more.
IsNumber(s) ==
  LET body == IF s # <<>> /\ Head(s) \in {Plus, Minus} THEN Tail(s) ELSE s
  IN  body # <<>> /\ \A i \in DOMAIN body : body[i] \in Digits

\* strconv.Atoi on an accepted s.
Atoi(s) ==
  IF Head(s) = Minus THEN 0 - DigitsValue(Tail(s), 0)
  ELSE IF Head(s) = Plus THEN DigitsValue(Tail(s), 0)
  ELSE DigitsValue(s, 0)

\* readInt: it asks again until a line parses, so the model types the line
\* that parses and readInt is Atoi of it, trimmed.
readInt(line) == Atoi(readInput(line))

\* The decimal text of a number, for the lines the model types.
RECURSIVE NatText(_)
NatText(n) == IF n < 10 THEN <<48 + n>> ELSE NatText(n \div 10) \o <<48 + (n % 10)>>

NumberText(n) == IF n < 0 THEN <<Minus>> \o NatText(0 - n) ELSE NatText(n)

\* The texts the model types at the prompts.
Dune == <<68, 117, 110, 101>>

DunePadded == <<32, 32, 68, 117, 110, 101, 32>>

FrankHerbert == <<70, 114, 97, 110, 107, 32, 72, 101, 114, 98, 101, 114, 116>>

FrankHerbertPadded == <<32, 70, 114, 97, 110, 107, 32, 72, 101, 114, 98, 101, 114, 116, 32, 32>>

Blank == <<32, 32, 32>>

\* " Dune Messiah  ": two words, blanks around.
DuneMessiahPadded ==
  <<32, 68, 117, 110, 101, 32, 77, 101, 115, 115, 105, 97, 104, 32, 32>>

TitleLines == {<<>>, Blank, Dune, DunePadded, DuneMessiahPadded}

AuthorLines == {Blank, FrankHerbert, FrankHerbertPadded}

MinYear == 1000

MaxYear == 2030

\* The years typed: the scenario's, and the nearest year each side rejects.
YearLines == {NumberText(y) : y \in {MinYear - 1, 1965, MaxYear + 1}}

\* ---------------------------------------------------------------- store

\* The literal of addSampleBooks; ID and CreatedAt are zero until Create.
sampleBooks ==
  <<
    \* "The Go Programming Language" by Alan Donovan
    [ID |-> 0, Title |-> <<84, 104, 101, 32, 71, 111, 32, 80, 114, 111, 103, 114, 97, 109, 109, 105, 110, 103, 32, 76, 97, 110, 103, 117, 97, 103, 101>>,
     Author |-> <<65, 108, 97, 110, 32, 68, 111, 110, 111, 118, 97, 110>>,
     Year |-> 2015, IsBorrowed |-> FALSE, CreatedAt |-> 0],
    \* "Clean Code" by Robert Martin
    [ID |-> 0, Title |-> <<67, 108, 101, 97, 110, 32, 67, 111, 100, 101>>,
     Author |-> <<82, 111, 98, 101, 114, 116, 32, 77, 97, 114, 116, 105, 110>>,
     Year |-> 2008, IsBorrowed |-> FALSE, CreatedAt |-> 0],
    \* "Design Patterns" by Gang of Four
    [ID |-> 0, Title |-> <<68, 101, 115, 105, 103, 110, 32, 80, 97, 116, 116, 101, 114, 110, 115>>,
     Author |-> <<71, 97, 110, 103, 32, 111, 102, 32, 70, 111, 117, 114>>,
     Year |-> 1994, IsBorrowed |-> TRUE, CreatedAt |-> 0],
    \* "The Pragmatic Programmer" by Andy Hunt
    [ID |-> 0, Title |-> <<84, 104, 101, 32, 80, 114, 97, 103, 109, 97, 116, 105, 99, 32, 80, 114, 111, 103, 114, 97, 109, 109, 101, 114>>,
     Author |-> <<65, 110, 100, 121, 32, 72, 117, 110, 116>>,
     Year |-> 1999, IsBorrowed |-> FALSE, CreatedAt |-> 0],
    \* "Effective Go" by Google Team
    [ID |-> 0, Title |-> <<69, 102, 102, 101, 99, 116, 105, 118, 101, 32, 71, 111>>,
     Author |-> <<71, 111, 111, 103, 108, 101, 32, 84, 101, 97, 109>>,
     Year |-> 2020, IsBorrowed |-> FALSE, CreatedAt |-> 0],
    \* "You Don't Know JS" by Kyle Simpson
    [ID |-> 0, Title |-> <<89, 111, 117, 32, 68, 111, 110, 39, 116, 32, 75, 110, 111, 119, 32, 74, 83>>,
     Author |-> <<75, 121, 108, 101, 32, 83, 105, 109, 112, 115, 111, 110>>,
     Year |-> 2014, IsBorrowed |-> FALSE, CreatedAt |-> 0],
    \* "Python Crash Course" by Eric Matthes
    [ID |-> 0, Title |-> <<80, 121, 116, 104, 111, 110, 32, 67, 114, 97, 115, 104, 32, 67, 111, 117, 114, 115, 101>>,
     Author |-> <<69, 114, 105, 99, 32, 77, 97, 116, 116, 104, 101, 115>>,
     Year |-> 2019, IsBorrowed |-> TRUE, CreatedAt |-> 0],
    \* "The Art of Computer Programming" by Donald Knuth
    [ID |-> 0, Title |-> <<84, 104, 101, 32, 65, 114, 116, 32, 111, 102, 32, 67, 111, 109, 112, 117, 116, 101, 114, 32, 80, 114, 111, 103, 114, 97, 109, 109, 105, 110, 103>>,
     Author |-> <<68, 111, 110, 97, 108, 100, 32, 75, 110, 117, 116, 104>>,
     Year |-> 1968, IsBorrowed |-> FALSE, CreatedAt |-> 0]
  >>

Rows(table) == {table[i] : i \in DOMAIN table}

MaxOf(S) == CHOOSE x \in S : \A y \in S : y <= x

\* Mutant: the largest rowid in use is given again.
NextIDStale(table) ==
  IF table = <<>> THEN 1 ELSE MaxOf({table[i].ID : i \in DOMAIN table})

\* The rowid SQLite gives an inserted row: one more than the largest in use.
NextID(table) ==
  IF table = <<>> THEN 1 ELSE MaxOf({table[i].ID : i \in DOMAIN table}) + 1

\* The created_at stamp of an insertion: later than every stamp in the table.
Now(table) ==
  IF table = <<>> THEN 1
  ELSE MaxOf({table[i].CreatedAt : i \in DOMAIN table}) + 1

\* db.Create(&b): INSERT with a fresh primary key; the is_borrowed the struct
\* holds is written as it is (false is also the column default).
Create(table, b) ==
  Append(table, [b EXCEPT !.ID = NextID(table), !.CreatedAt = Now(table)])

\* Mutant: the save behind Update writes the whole struct with fresh
\* timestamps, created_at included.
UpdateRestamps(table, selected, v) ==
  [i \in DOMAIN table |->
     IF table[i].ID = selected.ID
     THEN [table[i] EXCEPT !.IsBorrowed = v, !.CreatedAt = Now(table)]
     ELSE table[i]]

\* Mutant: an UPDATE with no WHERE clause.
UpdateEveryRow(table, selected, v) ==
  [i \in DOMAIN table |-> [table[i] EXCEPT !.IsBorrowed = v]]

\* Mutant: the row is saved whole from a struct that holds only the key and
\* the flag.
UpdateSavesStruct(table, selected, v) ==
  [i \in DOMAIN table |->
     IF table[i].ID = selected.ID
     THEN [ID |-> selected.ID, Title |-> <<>>, Author |-> <<>>, Year |-> 0,
           IsBorrowed |-> v, CreatedAt |-> table[i].CreatedAt]
     ELSE table[i]]

\* db.Model(&selected).Update("is_borrowed", v): UPDATE ... WHERE id = selected.ID
Update(table, selected, v) ==
  [i \in DOMAIN table |->
     IF table[i].ID = selected.ID
     THEN [table[i] EXCEPT !.IsBorrowed = v]
     ELSE table[i]]

\* Mutant: the condition is dropped.
WhereAny(rows, v) == rows

\* db.Where("is_borrowed = ?", v)
Where(rows, v) == {r \in rows : r.IsBorrowed = v}

\* SQLite's BINARY collation: bytewise, a proper prefix sorts first.
RECURSIVE LexLeqFrom(_, _, _)
LexLeqFrom(a, b, i) ==
  IF i > Len(a) THEN TRUE
  ELSE IF i > Len(b) THEN FALSE
  ELSE IF a[i] < b[i] THEN TRUE
  ELSE IF a[i] > b[i] THEN FALSE
  ELSE LexLeqFrom(a, b, i + 1)

LexLeq(a, b) == LexLeqFrom(a, b, 1)

\* The ORDER BY clauses the code uses.
RowLeq(by, r, q) ==
  IF by = "title" THEN LexLeq(r.Title, q.Title)
  ELSE q.CreatedAt <= r.CreatedAt       \* "created_at desc"

\* db.Order(by).Find(&list): every sequence of the rows that is sorted by the
\* key; rows with equal keys come in an order SQL leaves open.
RECURSIVE Order(_, _)
Order(rows, by) ==
  IF rows = {} THEN {<<>>}
  ELSE LET first == {r \in rows : \A q \in rows : RowLeq(by, r, q)}
       IN  UNION {{<<r>> \o rest : rest \in Order(rows \ {r}, by)} : r \in first}

\* Mutant: the available books come in the order of listBooks.
FindAvailableNewestFirst(table) ==
  Order(Where(Rows(table), FALSE), "created_at desc")

\* The three queries of part_000.
FindAvailable(table) == Order(Where(Rows(table), FALSE), "title")

\* Mutant: Return lists every book.
FindBorrowedUnfiltered(table) == Order(Rows(table), "title")

FindBorrowed(table) == Order(Where(Rows(table), TRUE), "title")

FindAll(table) == Order(Rows(table), "created_at desc")

\* ---------------------------------------------------------------- inputs

\* The numbers typed at "Option => ".
MenuInputs == 0..6

\* Lines typed at "Option => " that are no number: just Enter, and "x".
NotNumbers == {<<>>, <<120>>}

\* What a read of the choice consumes when the user types the number n.
OptionLine(n) == NumberText(n) \o <<NewLine>>

\* The numbers typed at a selection prompt over a list of n entries.
SelectorLines(n) == {NumberText(k) : k \in (-1)..(n + 1)}

\* Which of the Create calls of addSampleBooks fail (by position): none, all
\* but the first, or all.
SampleFailures == {{}, DOMAIN sampleBooks \ {1}, DOMAIN sampleBooks}

\* ---------------------------------------------------------------- scenario

\* Spec section 8: Add("Dune","Frank Herbert",1965), List, Borrow(1),
\* Borrow(1), Return(1), Return(1) on a fresh store.  `script` follows a run
\* for as long as it is this scenario and the store has not failed; a
\* selection of 1 is also the scenario's when the operation shows no list
\* and so asks for none.
ScenarioAdd == <<Dune, FrankHerbert, NumberText(1965)>>

ScriptStep(stage, ok, opt, in) ==
  IF ~ok THEN "off"
  ELSE IF stage = "fresh" /\ opt = 0 THEN "started"
  ELSE IF stage = "started" /\ opt = 1 /\ in = ScenarioAdd THEN "added"
  ELSE IF stage = "added" /\ opt = 2 THEN "listed"
  ELSE IF stage = "listed" /\ opt = 3 /\ in \in {<<>>, <<NumberText(1)>>} THEN "borrowed1"
  ELSE IF stage = "borrowed1" /\ opt = 3 /\ in \in {<<>>, <<NumberText(1)>>} THEN "borrowed2"
  ELSE IF stage = "borrowed2" /\ opt = 4 /\ in \in {<<>>, <<NumberText(1)>>} THEN "returned1"
  ELSE IF stage = "returned1" /\ opt = 4 /\ in \in {<<>>, <<NumberText(1)>>} THEN "returned2"
  ELSE "off"

\* `ok`: the store did not fail in this step.
Track(ok) == script' = ScriptStep(script, ok, option', typed')

\* ---------------------------------------------------------------- start

\* No Borrow has just succeeded.
NoTrip == [stage |-> "none", id |-> 0, before |-> <<>>]

\* The record kept after borrowBook or returnBook has printed `status` for
\* the book `selected`, the table having been `table` before the operation.
TripStep(last, status, selected, table) ==
  IF status = "Successfully borrowed"
  THEN [stage |-> "borrowed", id |-> selected.ID, before |-> table]
  ELSE IF /\ status = "Successfully returned"
          /\ last.stage = "borrowed"
          /\ last.id = selected.ID
  THEN [stage |-> "returned", id |-> last.id, before |-> last.before]
  ELSE NoTrip

Init ==
  /\ variant \in {"part_000", "main.go", "part_001a", "part_001b"}
  /\ pc = "init"
  /\ db = "nil"
  /\ library = <<>>
  /\ book = <<>>
  /\ option = 0
  /\ choice = <<>>
  /\ stdin = <<>>
  /\ menu = FALSE
  /\ typed = <<>>
  /\ outcome = ""
  /\ displayed = <<>>
  /\ summary = <<>>
  /\ adds = 0
  /\ script = "fresh"
  /\ seedings = 0
  /\ trip = NoTrip

\* ---------------------------------------------------------------- part_000

\* addSampleBooks: Create each literal in turn; a failed Create is reported
\* as a warning and the loop goes on.
RECURSIVE addSampleBooksFrom(_, _, _)
addSampleBooksFrom(table, failing, i) ==
  IF i > Len(sampleBooks) THEN table
  ELSE addSampleBooksFrom(
         IF i \in failing THEN table ELSE Create(table, sampleBooks[i]),
         failing, i + 1)

\* Mutant: the first-time setup inserts nothing.
addSampleBooksSkipped(table, failing) == table

addSampleBooks(table, failing) == addSampleBooksFrom(table, failing, 1)

\* performStartupTasks, task 4: rows with year < 1000 OR year > 2030.
invalidBooks(table) ==
  Cardinality({r \in Rows(table) : r.Year < MinYear \/ r.Year > MaxYear})

\* Mutant: the sample books are added on every start.
FirstTimeSetupOnEveryStart(bookCount) == TRUE

\* performStartupTasks, task 3: the test for a first-time setup.
FirstTimeSetup(bookCount) == bookCount = 0

\* main of part_000 up to the menu loop: initDB, then performStartupTasks.
\* A failed connection, migration or first count is fatal (log.Fatal).
P0_main ==
  /\ variant = "part_000"
  /\ trip' = NoTrip
  /\ pc # "menu"
  /\ book' = <<>>
  /\ option' = 0
  /\ choice' = <<>>
  /\ stdin' = <<>>
  /\ typed' = <<>>
  /\ displayed' = <<>>
  /\ summary' = <<>>
  /\ UNCHANGED <<variant, adds>>
  /\ \E failure \in {"none", "connect", "migrate", "count"} :
       IF failure # "none"
       THEN /\ pc' = "fatal"
            /\ db' = IF failure = "connect" THEN "nil" ELSE "open"
            /\ outcome' = CASE failure = "connect" -> "Failed to connect to database:"
                            [] failure = "migrate" -> "Failed to migrate database:"
                            [] OTHER -> "Database connectivity check failed:"
            /\ UNCHANGED <<library, seedings>>
            /\ Track(FALSE)
       ELSE LET bookCount == Len(library) IN
            \E failing \in (IF FirstTimeSetup(bookCount)
                             THEN SampleFailures ELSE {{}}) :
            /\ pc' = "menu"
            /\ db' = "open"
            /\ library' = IF FirstTimeSetup(bookCount)
                          THEN addSampleBooks(library, failing)
                          ELSE library
            /\ seedings' = IF Len(library') > bookCount
                           THEN seedings + 1 ELSE seedings
            /\ outcome' = IF invalidBooks(library') > 0
                          THEN "Warning: Found books with potentially invalid years"
                          ELSE "Data integrity check passed"
            /\ Track(failing = {})
  /\ menu' = (pc' = "menu")

\* Mutant: the year check has no upper limit.
InvalidYearNoUpperLimit(year) == year < MinYear

\* The year check of addBook.
InvalidYear(year) == year < MinYear \/ year > MaxYear

\* addBook of part_000 (menu option 1).  readInt returns the first line that
\* parses as a number, so the year is modelled by that number.
P0_addBook ==
  /\ variant = "part_000"
  /\ trip' = NoTrip
  /\ UNCHANGED seedings
  /\ pc = "menu"
  /\ adds < MaxAdds
  /\ option' = 1
  /\ choice' = OptionLine(1)
  /\ menu' = TRUE
  /\ displayed' = <<>>
  /\ summary' = <<>>
  /\ UNCHANGED <<variant, pc, db, book, stdin>>
  /\ \E titleLine \in TitleLines :
       LET title == readInput(titleLine) IN
       IF title = <<>>
       THEN /\ typed' = <<titleLine>>
            /\ outcome' = "Title cannot be empty."
            /\ UNCHANGED <<library, adds>>
            /\ Track(TRUE)
       ELSE \E authorLine \in AuthorLines :
            LET author == readInput(authorLine) IN
            IF author = <<>>
            THEN /\ typed' = <<titleLine, authorLine>>
                 /\ outcome' = "Author cannot be empty."
                 /\ UNCHANGED <<library, adds>>
                 /\ Track(TRUE)
            ELSE \E yearLine \in YearLines :
                 LET year == readInt(yearLine) IN
                 /\ typed' = <<titleLine, authorLine, yearLine>>
                 /\ IF InvalidYear(year)
                    THEN /\ outcome' = "Please enter a valid year between 1000 and 2030."
                         /\ UNCHANGED <<library, adds>>
                         /\ Track(TRUE)
                    ELSE \E created \in BOOLEAN :
                         LET newBook == [ID |-> 0, Title |-> title, Author |-> author,
                                         Year |-> year, IsBorrowed |-> FALSE,
                                         CreatedAt |-> 0]
                         IN  IF created
                             THEN /\ library' = Create(library, newBook)
                                  /\ adds' = adds + 1
                                  /\ outcome' = "Book added successfully!"
                                  /\ Track(TRUE)
                             ELSE /\ outcome' = "Error adding book:"
                                  /\ UNCHANGED <<library, adds>>
                                  /\ Track(FALSE)

\* Mutant: the test for an empty result is missing.
NoneFoundNever(list) == FALSE

\* The test `len(list) == 0` that follows each query.
NoneFound(list) == Len(list) = 0

\* Mutant: 0 passes the check.
InvalidSelectionFromZero(number, n) == number < 0 \/ number > n

\* The selection check of borrowBook and returnBook.
InvalidSelection(number, n) == number < 1 \/ number > n

\* Go's slice indexing list[i], zero-based: a panic unless 0 <= i < len(list).
InRange(i, n) == 0 <= i /\ i < n

Index(list, i) == list[i + 1]

\* Mutant: the number is used as the zero-based index (wrapping at the end).
SelectedOffByOne(list, number) == Index(list, number % Len(list))

\* selectedBook := list[number-1]
Selected(list, number) == Index(list, number - 1)

\* borrowBook of part_000 (menu option 3): query and show the available
\* books by title, read a number, update the selected row.
P0_borrowBook ==
  /\ variant = "part_000"
  /\ pc = "menu"
  /\ option' = 3
  /\ choice' = OptionLine(3)
  /\ summary' = <<>>
  /\ UNCHANGED <<variant, db, book, adds, stdin, seedings>>
  /\ \E found \in BOOLEAN :
       IF ~found
       THEN /\ outcome' = "Error fetching available books:"
            /\ typed' = <<>>
            /\ displayed' = <<>>
            /\ UNCHANGED <<pc, library>>
            /\ Track(FALSE)
       ELSE \E availableBooks \in FindAvailable(library) :
            IF NoneFound(availableBooks)
            THEN /\ outcome' = "No books available to borrow."
                 /\ typed' = <<>>
                 /\ displayed' = <<>>
                 /\ UNCHANGED <<pc, library>>
                 /\ Track(TRUE)
            ELSE /\ displayed' = availableBooks
                 /\ \E numberLine \in SelectorLines(Len(availableBooks)) :
                      LET number == readInt(numberLine) IN
                      /\ typed' = <<numberLine>>
                      /\ IF InvalidSelection(number, Len(availableBooks))
                         THEN /\ outcome' = "Invalid selection. Please try again."
                              /\ UNCHANGED <<pc, library>>
                              /\ Track(TRUE)
                         ELSE IF ~InRange(number - 1, Len(availableBooks))
                         THEN /\ outcome' = "panic: runtime error: index out of range"
                              /\ pc' = "panicked"
                              /\ UNCHANGED library
                              /\ Track(TRUE)
                         ELSE \E updated \in BOOLEAN :
                              LET selectedBook == Selected(availableBooks, number)
                              IN  IF updated
                                  THEN /\ library' = Update(library, selectedBook, TRUE)
                                       /\ outcome' = "Successfully borrowed"
                                       /\ UNCHANGED pc
                                       /\ Track(TRUE)
                                  ELSE /\ outcome' = "Error borrowing book:"
                                       /\ UNCHANGED <<pc, library>>
                                       /\ Track(FALSE)
  /\ menu' = (pc' = "menu")
  /\ trip' = IF outcome' \in {"Successfully borrowed", "Successfully returned"}
             THEN TripStep(trip, outcome',
                           Selected(displayed', readInt(typed'[1])), library)
             ELSE NoTrip

\* returnBook of part_000 (menu option 4): the same over the borrowed books.
P0_returnBook ==
  /\ variant = "part_000"
  /\ pc = "menu"
  /\ option' = 4
  /\ choice' = OptionLine(4)
  /\ summary' = <<>>
  /\ UNCHANGED <<variant, db, book, adds, stdin, seedings>>
  /\ \E found \in BOOLEAN :
       IF ~found
       THEN /\ outcome' = "Error fetching borrowed books:"
            /\ typed' = <<>>
            /\ displayed' = <<>>
            /\ UNCHANGED <<pc, library>>
            /\ Track(FALSE)
       ELSE \E borrowedBooks \in FindBorrowed(library) :
            IF NoneFound(borrowedBooks)
            THEN /\ outcome' = "No books currently borrowed."
                 /\ typed' = <<>>
                 /\ displayed' = <<>>
                 /\ UNCHANGED <<pc, library>>
                 /\ Track(TRUE)
            ELSE /\ displayed' = borrowedBooks
                 /\ \E numberLine \in SelectorLines(Len(borrowedBooks)) :
                      LET number == readInt(numberLine) IN
                      /\ typed' = <<numberLine>>
                      /\ IF InvalidSelection(number, Len(borrowedBooks))
                         THEN /\ outcome' = "Invalid selection. Please try again."
                              /\ UNCHANGED <<pc, library>>
                              /\ Track(TRUE)
                         ELSE IF ~InRange(number - 1, Len(borrowedBooks))
                         THEN /\ outcome' = "panic: runtime error: index out of range"
                              /\ pc' = "panicked"
                              /\ UNCHANGED library
                              /\ Track(TRUE)
                         ELSE \E updated \in BOOLEAN :
                              LET selectedBook == Selected(borrowedBooks, number)
                              IN  IF updated
                                  THEN /\ library' = Update(library, selectedBook, FALSE)
                                       /\ outcome' = "Successfully returned"
                                       /\ UNCHANGED pc
                                       /\ Track(TRUE)
                                  ELSE /\ outcome' = "Error returning book:"
                                       /\ UNCHANGED <<pc, library>>
                                       /\ Track(FALSE)
  /\ menu' = (pc' = "menu")
  /\ trip' = IF outcome' \in {"Successfully borrowed", "Successfully returned"}
             THEN TripStep(trip, outcome',
                           Selected(displayed', readInt(typed'[1])), library)
             ELSE NoTrip

\* Mutant: the counting loop starts at the second entry.
CountWhereSkipsFirst(list, v) ==
  Cardinality({i \in DOMAIN list : i > 1 /\ list[i].IsBorrowed = v})

\* The counting loop at the end of listBooks.
CountWhere(list, v) == Cardinality({i \in DOMAIN list : list[i].IsBorrowed = v})

\* listBooks of part_000 (menu option 2): all rows, newest first, then the
\* total and the available/borrowed breakdown.
P0_listBooks ==
  /\ variant = "part_000"
  /\ trip' = NoTrip
  /\ UNCHANGED seedings
  /\ pc = "menu"
  /\ option' = 2
  /\ choice' = OptionLine(2)
  /\ menu' = TRUE
  /\ typed' = <<>>
  /\ UNCHANGED <<variant, pc, db, library, book, adds, stdin>>
  /\ \E found \in BOOLEAN :
       IF ~found
       THEN /\ outcome' = "Error fetching books from database:"
            /\ displayed' = <<>>
            /\ summary' = <<>>
            /\ Track(FALSE)
       ELSE \E allBooks \in FindAll(library) :
            /\ Track(TRUE)
            /\ IF NoneFound(allBooks)
               THEN /\ outcome' = "No books in the library collection."
                    /\ displayed' = <<>>
                    /\ summary' = <<>>
               ELSE /\ outcome' = "Library Collection:"
                    /\ displayed' = allBooks
                    /\ summary' = <<Len(allBooks), CountWhere(allBooks, FALSE),
                                    CountWhere(allBooks, TRUE)>>

\* Mutant: option 5 ends the process through log.Fatal.
P0_exitAbnormal ==
  /\ variant = "part_000"
  /\ trip' = NoTrip
  /\ UNCHANGED seedings
  /\ pc = "menu"
  /\ option' = 5
  /\ choice' = OptionLine(5)
  /\ menu' = FALSE
  /\ pc' = "fatal"
  /\ outcome' = "Goodbye!"
  /\ typed' = <<>>
  /\ displayed' = <<>>
  /\ summary' = <<>>
  /\ UNCHANGED <<variant, db, library, book, adds, stdin>>
  /\ Track(TRUE)

\* Menu option 5 of part_000: menuSelector returns, main prints the session
\* summary and returns (exit status 0).
P0_exit ==
  /\ variant = "part_000"
  /\ trip' = NoTrip
  /\ UNCHANGED seedings
  /\ pc = "menu"
  /\ option' = 5
  /\ choice' = OptionLine(5)
  /\ menu' = FALSE
  /\ pc' = "exited"
  /\ outcome' = "Goodbye!"
  /\ typed' = <<>>
  /\ displayed' = <<>>
  /\ summary' = <<>>
  /\ UNCHANGED <<variant, db, library, book, adds, stdin>>
  /\ Track(TRUE)

\* The default case of menuSelector's switch in part_000.
P0_invalidOption ==
  /\ variant = "part_000"
  /\ trip' = NoTrip
  /\ UNCHANGED seedings
  /\ pc = "menu"
  /\ \E n \in MenuInputs \ (1..5) : option' = n /\ choice' = OptionLine(n)
  /\ menu' = TRUE
  /\ outcome' = "Invalid option. Please try again."
  /\ typed' = <<>>
  /\ displayed' = <<>>
  /\ summary' = <<>>
  /\ UNCHANGED <<variant, pc, db, library, book, adds, stdin>>
  /\ Track(TRUE)

\* readInt("Option => ") of menuSelector on a line that strconv.Atoi
\* rejects: it prints its complaint and asks again, inside readInt, so the
\* menu is not printed again and the switch is not reached.
P0_notANumber ==
  /\ variant = "part_000"
  /\ trip' = NoTrip
  /\ UNCHANGED seedings
  /\ pc = "menu"
  /\ \E line \in NotNumbers :
       /\ ~IsNumber(readInput(line))
       /\ choice' = line \o <<NewLine>>
  /\ menu' = FALSE
  /\ outcome' = "Please enter a valid number."
  /\ typed' = <<>>
  /\ displayed' = <<>>
  /\ summary' = <<>>
  /\ script' = "off"
  /\ UNCHANGED <<variant, pc, db, library, book, option, adds, stdin>>

\* ---------------------------------------------------------------- main.go

\* fmt.Scanln on os.Stdin, which is read a byte at a time.  `in` is the
\* unread input; the result is the value stored (cur when the scan fails)
\* and the input left unread.
RECURSIVE SkipSpace(_)
SkipSpace(in) ==
  IF in # <<>> /\ Head(in) \in WhiteSpace \ {NewLine}
  THEN SkipSpace(Tail(in))
  ELSE in

\* The longest prefix of `in` made of runes of `set`.
RECURSIVE Token(_, _)
Token(in, set) ==
  IF in # <<>> /\ Head(in) \in set THEN <<Head(in)>> \o Token(Tail(in), set)
  ELSE <<>>

Drop(in, n) == SubSeq(in, n + 1, Len(in))

\* After the last operand Scanln wants a newline: blanks are skipped, the
\* newline is consumed, and any other rune is an error that consumes it.
RECURSIVE EndLine(_)
EndLine(in) ==
  IF in = <<>> THEN in
  ELSE IF Head(in) = NewLine THEN Tail(in)
  ELSE IF Head(in) \in WhiteSpace THEN EndLine(Tail(in))
  ELSE Tail(in)

NotSpace == (1..255) \ WhiteSpace

\* fmt.Scanln(&s) for a string s: the first blank-separated word.
ScanString(cur, in) ==
  LET start == SkipSpace(in) IN
  IF start = <<>> THEN [val |-> cur, rest |-> start]
  ELSE IF Head(start) = NewLine THEN [val |-> cur, rest |-> Tail(start)]
  ELSE LET word == Token(start, NotSpace)
       IN  [val |-> word, rest |-> EndLine(Drop(start, Len(word)))]

\* fmt.Scanln(&n) for an int n: an optional sign and decimal digits; a rune
\* that cannot start the number is read, and lost with the error.
ScanInt(cur, in) ==
  LET start  == SkipSpace(in)
      sign   == Token(SubSeq(start, 1, 1), {Plus, Minus})
      number == Token(Drop(start, Len(sign)), Digits)
      after  == Drop(start, Len(sign) + Len(number))
  IN  IF start = <<>> THEN [val |-> cur, rest |-> start]
      ELSE IF Head(start) = NewLine THEN [val |-> cur, rest |-> Tail(start)]
      ELSE IF number = <<>> THEN [val |-> cur, rest |-> Drop(after, 1)]
      ELSE [val |-> Atoi(sign \o number), rest |-> EndLine(after)]

\* The lines typed at "Option => ".
MenuLines == {NumberText(n) : n \in MenuInputs} \cup NotNumbers

\* What the next read of a choice can consume: the input still unread, or,
\* when there is none, a line the user types now.
Unread == IF stdin # <<>> THEN {stdin} ELSE {line \o <<NewLine>> : line \in MenuLines}

\* fmt.Scanln(&option) in menuSelector: its error is dropped, and option
\* keeps its value when the scan fails.
ScanOption(in) == ScanInt(option, in)

\* One turn of main.go's loop up to the switch: displayMenu, the read of
\* the choice, and the case k taken.
MG_Choose(k) ==
  \E in \in Unread :
    /\ ScanOption(in).val = k
    /\ option' = k
    /\ choice' = in
    /\ stdin' = ScanOption(in).rest

\* main of main.go: menuSelector at once; initDB is never called.
MG_main ==
  /\ variant = "main.go"
  /\ trip' = NoTrip
  /\ UNCHANGED seedings
  /\ pc # "menu"
  /\ pc' = "menu"
  /\ db' = "nil"
  /\ book' = <<>>
  /\ option' = 0
  /\ choice' = <<>>
  /\ stdin' = <<>>
  /\ menu' = TRUE
  /\ typed' = <<>>
  /\ outcome' = ""
  /\ displayed' = <<>>
  /\ summary' = <<>>
  /\ UNCHANGED <<variant, library, adds>>
  /\ Track(TRUE)

\* Mutant: addBook appends the new book to the legacy slice before it saves
\* it.
MG_addBookAppends ==
  /\ variant = "main.go"
  /\ trip' = NoTrip
  /\ UNCHANGED seedings
  /\ pc = "menu"
  /\ adds < MaxAdds
  /\ \E in \in Unread :
       /\ ScanOption(in).val = 1
       /\ option' = 1
       /\ choice' = in
  /\ \E titleLine \in TitleLines, authorLine \in AuthorLines, yearLine \in YearLines :
       LET in     == ScanInt(option, choice').rest
                     \o titleLine \o <<NewLine>> \o authorLine \o <<NewLine>>
                     \o yearLine \o <<NewLine>>
           title  == ScanString(<<>>, in)
           author == ScanString(<<>>, title.rest)
           year   == ScanInt(0, author.rest)
       IN  /\ typed' = <<titleLine, authorLine, yearLine>>
           /\ book' = Append(book, [ID |-> 0, Title |-> title.val,
                                    Author |-> author.val, Year |-> year.val,
                                    IsBorrowed |-> FALSE, CreatedAt |-> 0])
  /\ pc' = "panicked"
  /\ menu' = FALSE
  /\ stdin' = <<>>
  /\ outcome' = "panic: runtime error: invalid memory address or nil pointer dereference"
  /\ displayed' = <<>>
  /\ summary' = <<>>
  /\ UNCHANGED <<variant, db, library, adds>>
  /\ Track(TRUE)

\* addBook of main.go (menu option 1): three Scanln reads, no validation,
\* then db.Create, which dereferences db: a panic while db is nil.
MG_addBook ==
  /\ variant = "main.go"
  /\ trip' = NoTrip
  /\ UNCHANGED seedings
  /\ pc = "menu"
  /\ adds < MaxAdds
  /\ \E in \in Unread :
       /\ ScanOption(in).val = 1
       /\ option' = 1
       /\ choice' = in
  /\ displayed' = <<>>
  /\ summary' = <<>>
  /\ UNCHANGED <<variant, db, book>>
  /\ \E titleLine \in TitleLines, authorLine \in AuthorLines, yearLine \in YearLines :
       LET in     == ScanInt(option, choice').rest
                     \o titleLine \o <<NewLine>> \o authorLine \o <<NewLine>>
                     \o yearLine \o <<NewLine>>
           title  == ScanString(<<>>, in)
           author == ScanString(<<>>, title.rest)
           year   == ScanInt(0, author.rest)
           newBook == [ID |-> 0, Title |-> title.val, Author |-> author.val,
                       Year |-> year.val, IsBorrowed |-> FALSE, CreatedAt |-> 0]
       IN  /\ typed' = <<titleLine, authorLine, yearLine>>
           /\ IF db = "nil"
              THEN /\ pc' = "panicked"
                   /\ menu' = FALSE
                   /\ stdin' = <<>>
                   /\ outcome' = "panic: runtime error: invalid memory address or nil pointer dereference"
                   /\ UNCHANGED <<library, adds>>
                   /\ Track(TRUE)
              ELSE \E created \in BOOLEAN :
                   /\ UNCHANGED pc
                   /\ menu' = TRUE
                   /\ stdin' = year.rest
                   /\ IF created
                      THEN /\ library' = Create(library, newBook)
                           /\ adds' = adds + 1
                           /\ outcome' = "Book added successfully"
                           /\ Track(TRUE)
                      ELSE /\ outcome' = "Error adding book:"
                           /\ UNCHANGED <<library, adds>>
                           /\ Track(FALSE)

\* listBooks of main.go (menu option 2): the legacy slice, in slice order.
MG_listBooks ==
  /\ variant = "main.go"
  /\ trip' = NoTrip
  /\ UNCHANGED seedings
  /\ pc = "menu"
  /\ MG_Choose(2)
  /\ menu' = TRUE
  /\ typed' = <<>>
  /\ summary' = <<>>
  /\ IF Len(book) = 0
     THEN /\ outcome' = "There are no books to display."
          /\ displayed' = <<>>
     ELSE /\ outcome' = "List of all books:"
          /\ displayed' = book
  /\ UNCHANGED <<variant, pc, db, library, book, adds>>
  /\ Track(TRUE)

\* borrowBook of main.go (menu option 3): a position in the legacy slice.
\* No list is printed.
MG_borrowBook ==
  /\ variant = "main.go"
  /\ trip' = NoTrip
  /\ UNCHANGED seedings
  /\ pc = "menu"
  /\ MG_Choose(3)
  /\ menu' = TRUE
  /\ displayed' = <<>>
  /\ summary' = <<>>
  /\ UNCHANGED <<variant, pc, db, library, adds>>
  /\ Track(TRUE)
  /\ IF Len(book) = 0
     THEN /\ outcome' = "No books to borrow.."
          /\ typed' = <<>>
          /\ UNCHANGED book
     ELSE \E numberLine \in SelectorLines(Len(book)) :
          LET number == ScanInt(0, numberLine \o <<NewLine>>).val
              limit  == number - 1
          IN  /\ typed' = <<numberLine>>
              /\ IF limit < 0 \/ limit >= Len(book)
                 THEN /\ outcome' = "Invalid number. Please try again."
                      /\ UNCHANGED book
                 ELSE IF Index(book, limit).IsBorrowed
                 THEN /\ outcome' = "has already been borrowed."
                      /\ UNCHANGED book
                 ELSE /\ outcome' = "has now been borrowed."
                      /\ book' = [book EXCEPT ![limit + 1].IsBorrowed = TRUE]

\* returnBook of main.go (menu option 4): prints the slice, then the same
\* over a position in it.
MG_returnBook ==
  /\ variant = "main.go"
  /\ trip' = NoTrip
  /\ UNCHANGED seedings
  /\ pc = "menu"
  /\ MG_Choose(4)
  /\ menu' = TRUE
  /\ displayed' = book
  /\ summary' = <<>>
  /\ UNCHANGED <<variant, pc, db, library, adds>>
  /\ Track(TRUE)
  /\ IF Len(book) = 0
     THEN /\ outcome' = "There are no books to return"
          /\ typed' = <<>>
          /\ UNCHANGED book
     ELSE \E numberLine \in SelectorLines(Len(book)) :
          LET number == ScanInt(0, numberLine \o <<NewLine>>).val
              limit  == number - 1
          IN  /\ typed' = <<numberLine>>
              /\ IF limit < 0 \/ limit >= Len(book)
                 THEN /\ outcome' = "Invalid number. Please try again."
                      /\ UNCHANGED book
                 ELSE IF ~Index(book, limit).IsBorrowed
                 THEN /\ outcome' = "has already been returned!"
                      /\ UNCHANGED book
                 ELSE /\ outcome' = "has now been returned."
                      /\ book' = [book EXCEPT ![limit + 1].IsBorrowed = FALSE]

\* Menu option 5 of main.go: menuSelector returns and main ends (status 0).
MG_exit ==
  /\ variant = "main.go"
  /\ trip' = NoTrip
  /\ UNCHANGED seedings
  /\ pc = "menu"
  /\ MG_Choose(5)
  /\ menu' = FALSE
  /\ pc' = "exited"
  /\ outcome' = "Thank you for using the program."
  /\ typed' = <<>>
  /\ displayed' = <<>>
  /\ summary' = <<>>
  /\ UNCHANGED <<variant, db, library, book, adds>>
  /\ Track(TRUE)

\* The default case of menuSelector's switch in main.go.
MG_invalidOption ==
  /\ variant = "main.go"
  /\ trip' = NoTrip
  /\ UNCHANGED seedings
  /\ pc = "menu"
  /\ \E k \in MenuInputs \ (1..5) : MG_Choose(k)
  /\ menu' = TRUE
  /\ outcome' = "Wrong option. Please try again."
  /\ typed' = <<>>
  /\ displayed' = <<>>
  /\ summary' = <<>>
  /\ UNCHANGED <<variant, pc, db, library, book, adds>>
  /\ Track(TRUE)

\* ---------------------------------------------------------------- part_001

\* The first program of part_001: the menu text, one fmt.Scanln(&option),
\* the echo of the option, and the end of main.
P1a_main ==
  /\ variant = "part_001a"
  /\ trip' = NoTrip
  /\ UNCHANGED seedings
  /\ pc \in {"init", "exited"}
  /\ \E line \in MenuLines :
       LET scan == ScanInt(0, line \o <<NewLine>>) IN
       /\ option' = scan.val
       /\ choice' = line \o <<NewLine>>
       /\ stdin' = scan.rest
  /\ pc' = "exited"
  /\ menu' = FALSE
  /\ outcome' = "has been chosen"
  /\ typed' = <<>>
  /\ displayed' = <<>>
  /\ summary' = <<>>
  /\ script' = "off"
  /\ UNCHANGED <<variant, db, library, book, adds>>

\* The second program of part_001 up to its loop: displayMenu and the one
\* fmt.Scanln(&option) of the program.
P1b_main ==
  /\ variant = "part_001b"
  /\ trip' = NoTrip
  /\ UNCHANGED seedings
  /\ pc \in {"init", "exited"}
  /\ \E line \in MenuLines :
       LET scan == ScanInt(0, line \o <<NewLine>>) IN
       /\ option' = scan.val
       /\ choice' = line \o <<NewLine>>
       /\ stdin' = scan.rest
  /\ pc' = "loop"
  /\ menu' = TRUE
  /\ outcome' = ""
  /\ typed' = <<>>
  /\ displayed' = <<>>
  /\ summary' = <<>>
  /\ script' = "off"
  /\ UNCHANGED <<variant, db, library, book, adds>>

\* What each case of the switch prints before it returns from main.
CaseText(k) ==
  CASE k = 1 -> "Add a New Book"
    [] k = 2 -> "List Books selected"
    [] k = 3 -> "Borrow Book"
    [] k = 4 -> "Return Book"
    [] OTHER -> "Thank you for using the system."

\* A turn of the loop of part_001b with option in 1..5: the case prints its
\* line and returns from main, which ends the process with status 0.
P1b_case ==
  /\ variant = "part_001b"
  /\ trip' = NoTrip
  /\ UNCHANGED seedings
  /\ pc = "loop"
  /\ option \in 1..5
  /\ pc' = "exited"
  /\ menu' = FALSE
  /\ outcome' = CaseText(option)
  /\ UNCHANGED <<variant, db, library, book, option, choice, stdin, typed,
                 displayed, summary, adds, script>>

\* A turn of the loop with any other option: the default case prints its
\* line and the loop turns again, on the same option, without a read.
P1b_default ==
  /\ variant = "part_001b"
  /\ trip' = NoTrip
  /\ UNCHANGED seedings
  /\ pc = "loop"
  /\ option \notin 1..5
  /\ menu' = FALSE
  /\ outcome' = "Invalid option. Please try again."
  /\ UNCHANGED <<variant, pc, db, library, book, option, choice, stdin, typed,
                 displayed, summary, adds, script>>

\* ---------------------------------------------------------------- system

Next ==
  \/ P0_main
  \/ P0_addBook
  \/ P0_listBooks
  \/ P0_borrowBook
  \/ P0_returnBook
  \/ P0_exit
  \/ P0_invalidOption
  \/ P0_notANumber
  \/ MG_main
  \/ MG_addBook
  \/ MG_listBooks
  \/ MG_borrowBook
  \/ MG_returnBook
  \/ MG_exit
  \/ MG_invalidOption
  \/ P1a_main
  \/ P1b_main
  \/ P1b_case
  \/ P1b_default

Spec == Init /\ [][Next]_vars

\* ---------------------------------------------------------------- vocabulary

\* The error taxonomy of spec section 7, as the messages of the two programs.
IsValidationError(o) ==
  o \in {"Title cannot be empty.", "Author cannot be empty.",
         "Please enter a valid year between 1000 and 2030."}

IsOutOfRange(o) ==
  o \in {"Invalid selection. Please try again.", "Invalid number. Please try again."}

IsAlreadyBorrowed(o) == o = "has already been borrowed."

IsNotBorrowed(o) == o = "has already been returned!"

IsStorageError(o) ==
  o \in {"Error adding book:", "Error fetching available books:",
         "Error borrowing book:", "Error fetching borrowed books:",
         "Error returning book:", "Error fetching books from database:"}

IsAdded(o) == o \in {"Book added successfully!", "Book added successfully"}

IsBorrowed(o) == o \in {"Successfully borrowed", "has now been borrowed."}

IsReturned(o) == o \in {"Successfully returned", "has now been returned."}

\* A step of the menu loop that dispatches option k: one that reaches the
\* switch, so not the step in which readInt of part_000 asks again.
MenuStep(k) == pc = "menu" /\ option' = k /\ ~P0_notANumber

\* The catalog the program works on: the table, or main.go's slice.
Catalog == IF variant = "part_000" THEN library ELSE book

\* What List can show of the catalog.
Listings == IF variant = "part_000" THEN FindAll(library) ELSE {book}

\* The number a selection line stands for.
NumberOf(line) == Atoi(readInput(line))

IDs(list) == {list[i].ID : i \in DOMAIN list}

\* The book with identifier id keeps everything but, possibly, its flag.
SameBook(r, q) ==
  /\ r.ID = q.ID
  /\ r.Title = q.Title
  /\ r.Author = q.Author
  /\ r.Year = q.Year

\* ---------------------------------------------------------------- claims

\* C1: a successful Add followed by List shows exactly one more book than
\* before the Add; the new book is available and its identifier differs from
\* that of every book already in the catalog, whose identifiers (and
\* entries) are unchanged; and a List step shows a listing of the catalog.
C1_AddThenList ==
  [][/\ (MenuStep(1) /\ IsAdded(outcome')) =>
          \A before \in Listings : \A after \in Listings' :
             /\ Len(after) = Len(before) + 1
             /\ \E i \in DOMAIN after :
                  /\ after[i].IsBorrowed = FALSE
                  /\ after[i].ID \notin IDs(before)
                  /\ Rows(after) \ {after[i]} = Rows(before)
                  /\ Cardinality(IDs(after)) = Len(after)
             /\ \A i \in DOMAIN library : library'[i].ID = library[i].ID
     /\ (MenuStep(2) /\ displayed' # <<>>) => displayed' \in Listings'
    ]_vars

\* C1 witness: List right after the one interactive Add shows the sample
\* books and the added one.
C1_Witness ==
  /\ option = 2
  /\ adds = 1
  /\ Len(displayed) = Len(sampleBooks) + 1
  /\ \E i \in DOMAIN displayed : displayed[i].Title = Dune

\* C2: an Add whose title or author is empty after trimming, or whose year
\* is below 1000 or above 2030, is rejected with a validation error and
\* leaves the catalog as it was.
InvalidAdd(in) ==
  \/ Len(in) >= 1 /\ readInput(in[1]) = <<>>
  \/ Len(in) >= 2 /\ readInput(in[2]) = <<>>
  \/ Len(in) >= 3 /\ IsNumber(readInput(in[3])) /\ InvalidYear(NumberOf(in[3]))

C2_InvalidAddRejected ==
  [][(MenuStep(1) /\ InvalidAdd(typed')) =>
       /\ IsValidationError(outcome')
       /\ library' = library
       /\ book' = book
    ]_vars

\* C3 as stated: a second Borrow attempt on a freshly added book, made
\* right after the Borrow that succeeded on it and with the same selection,
\* fails with AlreadyBorrowed and changes no book (the store not failing).
FreshlyBorrowed ==
  /\ pc = "menu"
  /\ option = 3
  /\ IsBorrowed(outcome)
  /\ adds > 0
  /\ typed # <<>>
  /\ Selected(displayed, NumberOf(typed[1])).ID = library[Len(library)].ID

C3_SecondBorrowAlreadyBorrowed ==
  [][(FreshlyBorrowed /\ MenuStep(3) /\ typed' \in {<<>>, typed}
        /\ ~IsStorageError(outcome')) =>
       /\ IsAlreadyBorrowed(outcome')
       /\ library' = library
       /\ book' = book
    ]_vars

\* C3 as amended: a Borrow that succeeds sets the flag of the selected book,
\* which was available; a book that is borrowed is not in the list a later
\* Borrow shows and no Borrow changes it, so the second attempt cannot
\* select it; and no Borrow ends with AlreadyBorrowed.
C3_BorrowOnce ==
  [][MenuStep(3) =>
       /\ ~IsAlreadyBorrowed(outcome')
       /\ \A r \in Rows(Catalog) :
            r.IsBorrowed => r \in Rows(Catalog') /\ r \notin Rows(displayed')
       /\ IsBorrowed(outcome') =>
            LET b == Selected(displayed', NumberOf(typed'[1])) IN
            /\ b \in Rows(Catalog)
            /\ ~b.IsBorrowed
            /\ [b EXCEPT !.IsBorrowed = TRUE] \in Rows(Catalog')
    ]_vars

\* C3 witness: the added book was borrowed, and the Borrow after it, with
\* the same selection, went to another book.
C3_Witness ==
  /\ option = 3
  /\ IsBorrowed(outcome)
  /\ adds > 0
  /\ library[Len(library)].IsBorrowed
  /\ Selected(displayed, NumberOf(typed[1])).ID # library[Len(library)].ID
  /\ Selected(displayed, NumberOf(typed[1])).Title = sampleBooks[5].Title

\* C4 as stated, where every book of a non-empty catalog is available, so
\* that Return can only be on a book that is not borrowed: Return fails with
\* NotBorrowed and changes no book (the store not failing).
C4_ReturnNotBorrowed ==
  [][(MenuStep(4) /\ Catalog # <<>> /\ (\A r \in Rows(Catalog) : ~r.IsBorrowed)
        /\ ~IsStorageError(outcome')) =>
       /\ IsNotBorrowed(outcome')
       /\ library' = library
       /\ book' = book
    ]_vars

\* C4 as amended: a book whose flag is false is not in the list Return
\* shows and no Return changes it; when no book is borrowed Return changes
\* nothing, asks for no selection, and reports that no book is borrowed
\* (or that the query failed), never NotBorrowed.
C4_ReturnLeavesAvailable ==
  [][MenuStep(4) =>
       /\ ~IsNotBorrowed(outcome')
       /\ \A r \in Rows(Catalog) :
            ~r.IsBorrowed => r \in Rows(Catalog') /\ r \notin Rows(displayed')
       /\ (\A r \in Rows(Catalog) : ~r.IsBorrowed) =>
            /\ outcome' \in {"No books currently borrowed.",
                             "Error fetching borrowed books:",
                             "There are no books to return"}
            /\ typed' = <<>>
            /\ library' = library
            /\ book' = book
    ]_vars

\* C4 witness: Return on a catalog that holds books, none of them borrowed.
C4_Witness ==
  /\ option = 4
  /\ outcome = "No books currently borrowed."
  /\ library # <<>>
  /\ \A r \in Rows(library) : ~r.IsBorrowed

\* C5: in Borrow and in Return, a selection that is 0, negative or greater
\* than the length of the list the operation displayed is rejected as out
\* of range, and every book keeps its borrowed flag.
C5_OutOfRange ==
  [][((MenuStep(3) \/ MenuStep(4)) /\ typed' # <<>>
        /\ (NumberOf(typed'[1]) <= 0 \/ NumberOf(typed'[1]) > Len(displayed'))) =>
       /\ IsOutOfRange(outcome')
       /\ pc' = "menu"
       /\ library' = library
       /\ book' = book
    ]_vars

\* C5 witness: a selection of 0, of -1 and of one more than the list length
\* has each been rejected.
C5_Witness ==
  /\ option \in {3, 4}
  /\ IsOutOfRange(outcome)
  /\ typed # <<>>
  /\ NumberOf(typed[1]) = Len(displayed) + 1
  /\ Len(displayed) > 1

\* The row of the book the scenario adds.
DuneRows == {r \in Rows(Catalog) : r.Title = Dune}

\* C6 as stated: on a fresh store the scenario gives a List of one available
\* entry, then Dune borrowed, then AlreadyBorrowed with Dune still borrowed,
\* then Dune available, then NotBorrowed.
C6_Scenario ==
  /\ script = "listed" =>
       Len(displayed) = 1 /\ \A i \in DOMAIN displayed : ~displayed[i].IsBorrowed
  /\ script = "borrowed1" => \E r \in DuneRows : r.IsBorrowed
  /\ script = "borrowed2" =>
       IsAlreadyBorrowed(outcome) /\ \E r \in DuneRows : r.IsBorrowed
  /\ script = "returned1" => \E r \in DuneRows : ~r.IsBorrowed
  /\ script = "returned2" => IsNotBorrowed(outcome)

\* C6 as amended.  In part_000 the first start on a fresh store inserts the
\* eight sample books, so: List shows nine entries, Dune first and
\* available; the first Borrow(1) borrows "Clean Code", the first available
\* title; the second Borrow(1) succeeds too and borrows Dune; the first
\* Return(1) returns "Clean Code" and the second returns "Design Patterns",
\* and Dune stays borrowed.  In main.go the Add ends the process with a
\* panic, and no later step of the scenario happens.
ScenarioSelected == Selected(displayed, NumberOf(typed[1]))

C6_ScenarioAsRun ==
  /\ (variant = "main.go" /\ script \notin {"fresh", "started", "off"}) =>
       script = "added" /\ pc = "panicked" /\ library = <<>> /\ book = <<>>
  /\ (variant = "part_000" /\ script = "added") =>
       IsAdded(outcome) /\ Len(library) = Len(sampleBooks) + 1
  /\ (variant = "part_000" /\ script = "listed") =>
       /\ Len(displayed) = Len(sampleBooks) + 1
       /\ displayed[1].Title = Dune
       /\ ~displayed[1].IsBorrowed
       /\ summary = <<9, 7, 2>>
  /\ (variant = "part_000" /\ script = "borrowed1") =>
       /\ IsBorrowed(outcome)
       /\ ScenarioSelected.Title = sampleBooks[2].Title
       /\ \A r \in DuneRows : ~r.IsBorrowed
  /\ (variant = "part_000" /\ script = "borrowed2") =>
       /\ IsBorrowed(outcome)
       /\ ScenarioSelected.Title = Dune
       /\ \A r \in DuneRows : r.IsBorrowed
  /\ (variant = "part_000" /\ script = "returned1") =>
       /\ IsReturned(outcome)
       /\ ScenarioSelected.Title = sampleBooks[2].Title
       /\ \A r \in DuneRows : r.IsBorrowed
  /\ (variant = "part_000" /\ script = "returned2") =>
       /\ IsReturned(outcome)
       /\ ScenarioSelected.Title = sampleBooks[3].Title
       /\ \A r \in DuneRows : r.IsBorrowed
       /\ Cardinality({r \in Rows(library) : r.IsBorrowed}) = 2

\* C6 witness: the scenario has been run to its last step.
C6_Witness == script = "returned2" /\ DuneRows # {}

\* C7: every book is available in the state right after the step that
\* creates it, whether addBook or the sample data of the first start.
C7_CreatedAvailable ==
  [][\A i \in DOMAIN library' \ DOMAIN library : ~library'[i].IsBorrowed]_vars

\* C8: the flag of a book goes from false to true only in a successful
\* Borrow that selected this book, and from true to false only in a
\* successful Return that selected it; no other step changes a flag.
FlagChanged(from, i, list, list2) ==
  i \in DOMAIN list2 /\ list[i].IsBorrowed = from /\ list2[i].IsBorrowed # from

C8_FlagTransitions ==
  [][\A i \in DOMAIN Catalog :
       /\ FlagChanged(FALSE, i, Catalog, Catalog') =>
            /\ MenuStep(3)
            /\ IsBorrowed(outcome')
            /\ variant = "part_000" =>
                 Selected(displayed', NumberOf(typed'[1])).ID = Catalog[i].ID
       /\ FlagChanged(TRUE, i, Catalog, Catalog') =>
            /\ MenuStep(4)
            /\ IsReturned(outcome')
            /\ variant = "part_000" =>
                 Selected(displayed', NumberOf(typed'[1])).ID = Catalog[i].ID
    ]_vars

\* C8 witness: a book that was borrowed has been returned, while the books
\* added as borrowed are still borrowed.
C8_Witness ==
  /\ option = 4
  /\ IsReturned(outcome)
  /\ ~Selected(displayed, NumberOf(typed[1])).Title
        \in {sampleBooks[3].Title, sampleBooks[7].Title}
  /\ Cardinality({r \in Rows(library) : r.IsBorrowed}) = 2

\* C9: every book ever created stays in the catalog with the identifier,
\* title, author and year it was created with; no step removes a book.
C9_BooksKept ==
  [][/\ Len(library') >= Len(library)
     /\ \A i \in DOMAIN library : SameBook(library'[i], library[i])
     /\ Len(book') >= Len(book)
     /\ \A i \in DOMAIN book : SameBook(book'[i], book[i])
    ]_vars

\* C9 witness: after an Add, a Borrow of the added book and a Return of
\* another, the sample books and the added one are all there.
C9_Witness ==
  /\ adds = 1
  /\ option = 4
  /\ IsReturned(outcome)
  /\ Len(library) = Len(sampleBooks) + 1
  /\ library[Len(library)].IsBorrowed

\* C10: a Borrow with selection k in 1..n, n the length of the available
\* list queried and displayed in this Borrow, sets the flag of exactly the
\* k-th book of that list and changes no other book; Return likewise over
\* the borrowed list.
FlipsExactly(list, k, v) ==
  /\ list[k] \in Rows(library)
  /\ list[k].IsBorrowed = ~v
  /\ \A i \in DOMAIN library :
       library'[i] = IF library[i].ID = list[k].ID
                     THEN [library[i] EXCEPT !.IsBorrowed = v]
                     ELSE library[i]
  /\ Len(library') = Len(library)

C10_SelectsKth ==
  [][/\ (MenuStep(3) /\ typed' # <<>> /\ ~IsStorageError(outcome')
           /\ NumberOf(typed'[1]) \in 1..Len(displayed')) =>
          /\ displayed' \in FindAvailable(library)
          /\ IsBorrowed(outcome')
          /\ FlipsExactly(displayed', NumberOf(typed'[1]), TRUE)
     /\ (MenuStep(4) /\ typed' # <<>> /\ ~IsStorageError(outcome')
           /\ NumberOf(typed'[1]) \in 1..Len(displayed')) =>
          /\ displayed' \in FindBorrowed(library)
          /\ IsReturned(outcome')
          /\ FlipsExactly(displayed', NumberOf(typed'[1]), FALSE)
    ]_vars

\* C10 witness: a Borrow with a selection that is neither the first nor the
\* last of a list of more than two books.
C10_Witness ==
  /\ option = 3
  /\ IsBorrowed(outcome)
  /\ NumberOf(typed[1]) > 1
  /\ NumberOf(typed[1]) < Len(displayed)


\* ---------------------------------------------------------------- menu loop

\* The "invalid option" response of the three menu loops.
IsInvalidOption(o) ==
  o \in {"Invalid option. Please try again.", "Wrong option. Please try again."}

\* What each operation can print last, by its menu number; the cases of
\* part_001b print the heading of the operation and nothing else.
Prints(k) ==
  CASE k = 1 -> {"Title cannot be empty.", "Author cannot be empty.",
                 "Please enter a valid year between 1000 and 2030.",
                 "Book added successfully!", "Book added successfully",
                 "Error adding book:", "Add a New Book",
                 "panic: runtime error: invalid memory address or nil pointer dereference"}
    [] k = 2 -> {"Error fetching books from database:",
                 "No books in the library collection.", "Library Collection:",
                 "There are no books to display.", "List of all books:",
                 "List Books selected"}
    [] k = 3 -> {"Error fetching available books:", "No books available to borrow.",
                 "Invalid selection. Please try again.", "Successfully borrowed",
                 "Error borrowing book:", "No books to borrow..",
                 "Invalid number. Please try again.", "has already been borrowed.",
                 "has now been borrowed.", "Borrow Book"}
    [] k = 4 -> {"Error fetching borrowed books:", "No books currently borrowed.",
                 "Invalid selection. Please try again.", "Successfully returned",
                 "Error returning book:", "There are no books to return",
                 "Invalid number. Please try again.", "has already been returned!",
                 "has now been returned.", "Return Book"}
    [] OTHER -> {"Goodbye!", "Thank you for using the program.",
                 "Thank you for using the system."}

\* A turn of a menu loop.
LoopTurn == pc \in {"menu", "loop"}

\* The choice the turn works on, as the user entered it, trimmed.
Entered == TrimSpace(choice')

\* The user entered the number k.
EnteredNumber(k) == IsNumber(Entered) /\ Atoi(Entered) = k

\* C11: in a turn of the menu loop the inputs 1, 2, 3, 4 dispatch Add, List,
\* Borrow, Return and 5 ends the program; any other input, a number or not,
\* runs none of the four operations, gets the "invalid option" response,
\* leaves the catalog as it was, and leaves the program at the menu, printed
\* again, waiting for a new choice.
C11_MenuDispatch ==
  [][LoopTurn =>
       /\ \A k \in 1..4 : EnteredNumber(k) => outcome' \in Prints(k)
       /\ EnteredNumber(5) => pc' = "exited" /\ outcome' \in Prints(5)
       /\ (\A k \in 1..5 : ~EnteredNumber(k)) =>
            /\ IsInvalidOption(outcome')
            /\ library' = library
            /\ book' = book
            /\ pc' = "menu"
            /\ menu'
    ]_vars

\* The part of C11 that main.go breaks: a turn on an input that is none of
\* 1..4 runs none of the four operations.
C11_OtherInputRunsNothing ==
  [][(LoopTurn /\ variant = "main.go" /\ \A k \in 1..5 : ~EnteredNumber(k)) =>
       \A k \in 1..4 : outcome' \notin Prints(k)
    ]_vars

\* C12: once the menu loop runs, the process ends only in a turn in which
\* the option is 5; a turn that dispatches one of the operations 1 to 4
\* leaves the process running, at the menu, printed again.
C12_OnlyExitTerminates ==
  [][LoopTurn =>
       /\ pc' \notin {"menu", "loop"} => option' = 5
       /\ (option' \in 1..4 /\ ~P0_notANumber) => pc' = "menu" /\ menu'
    ]_vars

\* ---------------------------------------------------------------- failures

\* The fatal messages of initDB and of the first query of
\* performStartupTasks.
IsSetupFailure(o) ==
  o \in {"Failed to connect to database:", "Failed to migrate database:",
         "Database connectivity check failed:"}

\* The process has ended on a failure: log.Fatal, or a run-time panic.
Failed == pc \in {"fatal", "panicked"}

\* C13: a turn of the menu loop in which the store fails prints the error,
\* leaves the catalog as it was and leaves the program at the menu; the
\* process ends on a failure only in the start-up steps that precede the
\* loop, with the message of the failed set-up.
C13_StorageFailureRecovered ==
  [][/\ (LoopTurn /\ IsStorageError(outcome')) =>
          /\ library' = library
          /\ book' = book
          /\ pc' = "menu"
          /\ menu'
     /\ Failed' => ~LoopTurn /\ IsSetupFailure(outcome')
    ]_vars

\* The programs that keep their books in library.db.
StoreBacked == variant \in {"part_000", "main.go"}

\* C14: in the store-backed programs every turn of the menu loop that
\* dispatches Add, List, Borrow or Return finds the store opened and its
\* schema ensured by the start-up of this process, and the start-up is the
\* only step that opens it.
C14_StoreReadyBeforeMenu ==
  [][StoreBacked =>
       /\ (\E k \in 1..4 : MenuStep(k)) => db = "open"
       /\ (db # "open" /\ db' = "open") => pc # "menu"
    ]_vars

\* ---------------------------------------------------------------- exit

\* The farewell of the three menu loops.
IsFarewell(o) ==
  o \in {"Goodbye!", "Thank you for using the program.",
         "Thank you for using the system."}

\* C15: a turn of the menu loop on the choice 5 prints the farewell, ends
\* the process normally (status 0) and changes no book; and wherever the
\* program waits for a choice with no input pending, the user can make this
\* choice.
C15_ExitTerminates ==
  [][/\ (LoopTurn /\ EnteredNumber(5)) =>
          /\ pc' = "exited"
          /\ IsFarewell(outcome')
          /\ library' = library
          /\ book' = book
     /\ (pc = "menu" /\ stdin = <<>>) => ENABLED (P0_exit \/ MG_exit)
    ]_vars

\* C15 witness: the program has ended on option 5 with a book added in the
\* catalog and a book borrowed through the menu.
C15_Witness ==
  /\ pc = "exited"
  /\ option = 5
  /\ IsFarewell(outcome)
  /\ adds > 0
  /\ Cardinality({r \in Rows(library) : r.IsBorrowed}) > 2

\* ---------------------------------------------------------------- listing

\* The number of books of the catalog whose flag is v.
Flagged(v) == Cardinality({i \in DOMAIN library : library[i].IsBorrowed = v})

\* C16: a List that shows books shows every book of the catalog exactly
\* once and nothing else, a List on a catalog that holds books shows them
\* unless the query fails, and the total, available and borrowed counts it
\* prints are the number of books, of books with flag false and of books
\* with flag true, so that available + borrowed = total.
C16_ListComplete ==
  [][MenuStep(2) =>
       /\ (Catalog # <<>> /\ ~IsStorageError(outcome')) => displayed' # <<>>
       /\ displayed' # <<>> =>
            /\ Len(displayed') = Len(Catalog)
            /\ \A r \in Rows(Catalog) :
                 Cardinality({i \in DOMAIN displayed' : displayed'[i] = r}) = 1
            /\ variant = "part_000" =>
                 /\ summary' = <<Len(library), Flagged(FALSE), Flagged(TRUE)>>
                 /\ summary'[2] + summary'[3] = summary'[1]
    ]_vars

\* C16 witness: a List of the eight sample books and an added one, after a
\* Borrow through the menu.
C16_Witness ==
  /\ option = 2
  /\ Len(displayed) = Len(sampleBooks) + 1
  /\ summary = <<9, 6, 3>>

\* The position of the book r in a list that holds it.
Position(list, r) == CHOOSE i \in DOMAIN list : list[i].ID = r.ID

\* The list a Borrow (flag FALSE) or a Return (flag TRUE) of part_000 has
\* just shown holds exactly the books of the catalog with that flag.
ShowsExactly(v) ==
  /\ Rows(displayed') = {r \in Rows(library) : r.IsBorrowed = v}
  /\ Len(displayed') = Flagged(v)

\* A Borrow or Return of part_000 that shows a list.
ShowsFiltered ==
  variant = "part_000" /\ (MenuStep(3) \/ MenuStep(4)) /\ displayed' # <<>>

\* C17 as stated: the list Borrow shows holds exactly the available books
\* and the list Return shows exactly the borrowed ones, and any two books
\* of such a list stand in the order in which List shows them on the same
\* catalog.
C17_SameOrderAsList ==
  [][ShowsFiltered =>
       /\ ShowsExactly(option' = 4)
       /\ \A all \in FindAll(library) :
            \A i, j \in DOMAIN displayed' :
               i < j => Position(all, displayed'[i]) < Position(all, displayed'[j])
    ]_vars

\* C17 as amended: the filtered lists hold exactly the books with the flag
\* and are sorted by title, ascending, byte by byte; List is sorted by
\* creation time, newest first.  The two orders are different keys.
C17_FilteredByTitle ==
  [][/\ ShowsFiltered =>
          /\ ShowsExactly(option' = 4)
          /\ \A i, j \in DOMAIN displayed' :
               i < j => LexLeq(displayed'[i].Title, displayed'[j].Title)
     /\ (variant = "part_000" /\ MenuStep(2)) =>
          \A i, j \in DOMAIN displayed' :
             i < j => displayed'[i].CreatedAt > displayed'[j].CreatedAt
    ]_vars

\* C17 witness: Borrow has shown a list in which a book stands before the
\* newer book "Dune", which List shows first.
C17_Witness ==
  /\ variant = "part_000"
  /\ option = 3
  /\ \E i, j \in DOMAIN displayed :
       /\ i < j
       /\ displayed[j].Title = Dune
       /\ displayed[i].CreatedAt < displayed[j].CreatedAt

\* ---------------------------------------------------------------- empty lists

\* The messages for a list with nothing in it.
IsInformational(o) ==
  o \in {"No books in the library collection.", "No books available to borrow.",
         "No books currently borrowed.", "There are no books to display.",
         "No books to borrow..", "There are no books to return"}

\* The catalog holds no book with flag v.
NoneFlagged(v) == \A r \in Rows(Catalog) : r.IsBorrowed # v

\* The operation of menu option k has nothing to work on: no book for List,
\* no available book for Borrow, no borrowed book for Return.
NothingFor(k) ==
  CASE k = 2 -> Catalog = <<>>
    [] k = 3 -> NoneFlagged(FALSE)
    [] k = 4 -> NoneFlagged(TRUE)

\* C18: a List, Borrow or Return whose list is empty (the query not
\* failing) prints its informational message, shows no list, reads no
\* selection, changes no book and leaves the program at the menu.
C18_EmptyListInformational ==
  [][\A k \in 2..4 :
       (MenuStep(k) /\ NothingFor(k) /\ ~IsStorageError(outcome')) =>
          /\ IsInformational(outcome')
          /\ displayed' = <<>>
          /\ typed' = <<>>
          /\ library' = library
          /\ book' = book
          /\ pc' = "menu"
          /\ menu'
    ]_vars

\* C18 witness: Borrow has found no available book in a catalog that holds
\* books, all of them borrowed.
C18_Witness ==
  /\ option = 3
  /\ outcome = "No books available to borrow."
  /\ library # <<>>
  /\ pc = "menu"

\* ---------------------------------------------------------------- text input

\* t is the line without the white space at its two ends: the line is some
\* white space, then t, then some white space, and t neither begins nor
\* ends with white space.
IsTrimOf(t, line) ==
  \E i \in 0..Len(line) : \E j \in i..Len(line) :
    /\ t = SubSeq(line, i + 1, j)
    /\ \A k \in 1..i : line[k] \in WhiteSpace
    /\ \A k \in (j + 1)..Len(line) : line[k] \in WhiteSpace
    /\ t # <<>> => t[1] \notin WhiteSpace /\ t[Len(t)] \notin WhiteSpace

\* C19: the title and the author a successful Add stores are the whole
\* lines typed at the two prompts with the white space at their ends
\* removed and the blanks inside kept, and the year is the number typed at
\* the third prompt; no field takes text of another line.
C19_WholeLineStored ==
  [][(MenuStep(1) /\ IsAdded(outcome')) =>
       LET newBook == library'[Len(library')] IN
       /\ Len(library') = Len(library) + 1
       /\ Len(typed') = 3
       /\ IsTrimOf(newBook.Title, typed'[1])
       /\ IsTrimOf(newBook.Author, typed'[2])
       /\ newBook.Title # <<>>
       /\ newBook.Author # <<>>
       /\ NumberText(newBook.Year) = typed'[3]
    ]_vars

\* C19 witness: an Add has stored a title of two words, typed with blanks
\* around it, under an author of two words.
C19_Witness ==
  /\ option = 1
  /\ IsAdded(outcome)
  /\ typed[1] = DuneMessiahPadded
  /\ \E r \in Rows(library) :
       /\ r.Title = SubSeq(DuneMessiahPadded, 2, 13)
       /\ r.Author = FrankHerbert
       /\ Space \in {r.Title[k] : k \in DOMAIN r.Title}

\* ---------------------------------------------------------------- legacy slice

\* C20: in main.go the slice `book` is empty in every state, no step
\* appends to it; so List shows no book, Borrow and Return take their
\* empty-catalog branch and read no selection, and no borrowed flag, in the
\* slice or in the table, ever changes.
C20_SliceAlwaysEmpty ==
  /\ variant = "main.go" => book = <<>>
  /\ [][variant = "main.go" =>
          /\ book' = <<>>
          /\ \A i \in DOMAIN library :
               i \in DOMAIN library' /\ library'[i].IsBorrowed = library[i].IsBorrowed
          /\ MenuStep(2) =>
               displayed' = <<>> /\ outcome' = "There are no books to display."
          /\ MenuStep(3) => typed' = <<>> /\ outcome' = "No books to borrow.."
          /\ MenuStep(4) => typed' = <<>> /\ outcome' = "There are no books to return"
       ]_vars

\* C20 witness: main.go has run Borrow on its empty slice and is back at
\* the menu.
C20_Witness ==
  /\ variant = "main.go"
  /\ pc = "menu"
  /\ option = 3
  /\ outcome = "No books to borrow.."
  /\ book = <<>>


\* ---------------------------------------------------------------- C21

\* The columns of the rows that the lists print and the flag, row by row.
SameColumns(before, after) ==
  /\ Len(after) = Len(before)
  /\ \A i \in DOMAIN before :
       /\ after[i].ID = before[i].ID
       /\ after[i].Title = before[i].Title
       /\ after[i].Author = before[i].Author
       /\ after[i].Year = before[i].Year
       /\ after[i].IsBorrowed = before[i].IsBorrowed

\* What List, the available list and the borrowed list can show of a table.
SameLists(before, after) ==
  /\ FindAll(after) = FindAll(before)
  /\ FindAvailable(after) = FindAvailable(before)
  /\ FindBorrowed(after) = FindBorrowed(before)

\* C21: in part_000, after a successful Borrow of a book immediately
\* followed by a successful Return of that same book, every book has the
\* identifier, title, author, year and borrowed flag it had before the
\* Borrow, and List, the available list and the borrowed list show the same
\* books in the same order as before the Borrow.
C21_BorrowReturnRestores ==
  (variant = "part_000" /\ trip.stage = "returned") =>
    /\ SameColumns(trip.before, library)
    /\ SameLists(trip.before, library)

\* A Borrow of a book was followed at once by the Return of that book, in a
\* catalog that also holds a book that stayed borrowed throughout.
C21_Witness ==
  /\ variant = "part_000"
  /\ trip.stage = "returned"
  /\ option = 4
  /\ IsReturned(outcome)
  /\ \E i \in DOMAIN trip.before :
       /\ trip.before[i].ID = trip.id
       /\ ~trip.before[i].IsBorrowed
  /\ \E i \in DOMAIN library : library[i].IsBorrowed


\* ---------------------------------------------------------------- C22

\* A row that addBook's three checks would have let through.
WellFormed(r) ==
  /\ r.Title # <<>>
  /\ r.Author # <<>>
  /\ r.Year \in MinYear..MaxYear

\* The line of a startup integrity check that found a row.
IsIntegrityWarning(status) ==
  status = "Warning: Found books with potentially invalid years"

\* C22: part_000, started on an empty store, holds in every reachable state
\* only books with a non-empty title, a non-empty author and a year in
\* [1000, 2030], sample books and interactively added books alike, so the
\* startup integrity check counts no book, and reports none, on any start.
C22_BooksWellFormed ==
  variant = "part_000" =>
    /\ \A r \in Rows(library) : WellFormed(r)
    /\ invalidBooks(library) = 0
    /\ ~IsIntegrityWarning(outcome)

\* A later start: the program has been started again on a store that holds
\* the sample books and an interactively added book, and its integrity check
\* has passed.
C22_Witness ==
  /\ variant = "part_000"
  /\ pc = "menu"
  /\ option = 0
  /\ adds > 0
  /\ Len(library) = Len(sampleBooks) + 1
  /\ outcome = "Data integrity check passed"


\* ---------------------------------------------------------------- C23

\* A start of part_000 that leaves more rows in the store than it found.
StartupInserts ==
  /\ variant = "part_000"
  /\ pc # "menu"
  /\ pc' = "menu"
  /\ Len(library') > Len(library)

\* C23: in part_000, a start inserts the sample books only into a store that
\* holds zero books; no step removes a book; and so, over any sequence of
\* sessions on one store, at most one session inserts the sample books, and
\* none inserts them into a store that already holds a book.
C23_SampleBooksOnce ==
  [][ variant = "part_000" =>
        /\ StartupInserts => library = <<>> /\ seedings = 0
        /\ Len(library') >= Len(library)
        /\ seedings' <= 1 ]_vars

\* A later session has started on the store that an earlier session seeded
\* and added a book to, and has inserted nothing.
C23_Witness ==
  /\ variant = "part_000"
  /\ seedings = 1
  /\ pc = "menu"
  /\ option = 0
  /\ adds > 0
  /\ Len(library) > Len(sampleBooks)

====
